---- MODULE Spec2Model ----
(***************************************************************************)
(* Model of scripts/NORA3_ERA5/NORA3_ERA5.py: source selection             *)
(* (get_timeseries), the NORA3 forecast-cycle file locator, the file lists *)
(* and the de-accumulation of integrated parameters                        *)
(* (get_nora3_timeseries), the surface-parameter extractor                 *)
(* (_get_nora3_timeseries_sfx), the ERA5 extractor (get_era5_timeseries),  *)
(* the strides of write_SUNPOINT_timeseries, the grid-point lookup and     *)
(* get_closest_water_point.                                                *)
(*                                                                         *)
(* A datetime is a whole number of hours since 1970-01-01 00:00.  File     *)
(* names are strings, built the way the code formats them.  A call is one  *)
(* action; the variables hold the arguments of the call and what it left   *)
(* behind (file lists, files opened, the returned series or the exception).*)
(***************************************************************************)
EXTENDS Integers, Sequences, FiniteSets, TLC

VARIABLES
    op,                      \* the function called last ("idle" between calls)
    param, lon, lat,         \* the arguments of the call
    start_time, end_time,
    use_atm,
    data,                    \* which archive content the files hold
    mf_reads_corrupt,        \* whether open_mfdataset can read the 2020-02-29 cycle-18 files
    first_timestep_filename, \* get_nora3_timeseries locals, at the end of the call
    located,                 \* filenames as the loop leaves it (line 516)
    filenames,               \* filenames as handed to open_mfdataset (line 537)
    spinup_filenames,
    opened,                  \* the files opened, in order
    raised,                  \* the exception that ended the call, "" when it returned
    source,                  \* get_timeseries: the tag of the returned pair / branch taken
    callee,                  \* get_timeseries: the extractor call made, arguments by parameter name
    result,                  \* the returned series: a sequence of [time, values]
    args,                    \* the arguments of a function applied on its own
    ret                      \* what that function returned, or the locals it is at

vars == <<op, param, lon, lat, start_time, end_time, use_atm, data, mf_reads_corrupt,
          first_timestep_filename, located, filenames, spinup_filenames, opened,
          raised, source, callee, result, args, ret>>

----------------------------------------------------------------------------
(* datetime: the proleptic Gregorian calendar of Python's datetime         *)

DaysFromCivil(y, m, d) ==
    LET yy  == IF m <= 2 THEN y - 1 ELSE y
        era == yy \div 400
        yoe == yy - era * 400
        mp  == IF m > 2 THEN m - 3 ELSE m + 9
        doy == (153 * mp + 2) \div 5 + d - 1
        doe == yoe * 365 + yoe \div 4 - yoe \div 100 + doy
    IN  era * 146097 + doe - 719468

CivilFromDays(z) ==
    LET zz  == z + 719468
        era == zz \div 146097
        doe == zz - era * 146097
        yoe == (doe - doe \div 1460 + doe \div 36524 - doe \div 146096) \div 365
        doy == doe - (365 * yoe + yoe \div 4 - yoe \div 100)
        mp  == (5 * doy + 2) \div 153
        d   == doy - (153 * mp + 2) \div 5 + 1
        m   == IF mp < 10 THEN mp + 3 ELSE mp - 9
        y   == yoe + era * 400
    IN  [year |-> IF m <= 2 THEN y + 1 ELSE y, month |-> m, day |-> d]

\* datetime(y, m, d, h)
datetime(y, m, d, h) == DaysFromCivil(y, m, d) * 24 + h

\* t.hour, t.year, t.month, t.day
HourOf(t)  == t % 24
DateOf(t)  == CivilFromDays(t \div 24)

\* timedelta(hours=1)
hour == 1

----------------------------------------------------------------------------
(* string formatting: strftime("%Y"), ("%m"), ("%d"), {period:02d}, {index_file} *)

DigitStr == <<"0", "1", "2", "3", "4", "5", "6", "7", "8", "9">>

Digit(n) == DigitStr[n + 1]

\* {:02d} and strftime's %m, %d
Pad2(n) == IF n < 10 THEN "0" \o Digit(n)
           ELSE IF n < 100 THEN Digit(n \div 10) \o Digit(n % 10)
           ELSE Digit(n \div 100) \o Digit((n \div 10) % 10) \o Digit(n % 10)

\* strftime("%Y")
Pad4(n) == Digit(n \div 1000) \o Digit((n \div 100) % 10) \o Digit((n \div 10) % 10) \o Digit(n % 10)

\* "{}".format(n) for the file index
Str(n) == IF n < 0 THEN "-" \o (IF -n < 10 THEN Digit(-n) ELSE Digit((-n) \div 10) \o Digit((-n) % 10))
          ELSE IF n < 10 THEN Digit(n)
          ELSE Digit(n \div 10) \o Digit(n % 10)

\* x.startswith(prefix)
startswith(x, prefix) ==
    /\ Len(x) >= Len(prefix)
    /\ SubSeq(x, 1, Len(prefix)) = prefix

data_dir == "/lustre/storeB/project/fou/om/WINDSURFER/HM40h12/netcdf"

excluded_prefix == "/lustre/storeB/project/fou/om/WINDSURFER/HM40h12/netcdf/2020/02/29/18/fc2020022918"

\* os.path.join(data_dir, "{year}/{month}/{day}/{period:02d}/fc{year}{month}{day}{period:02d}_00{index_file}_fp.nc")
FpName(Y, M, D, P, index_file) ==
    data_dir \o "/" \o Y \o "/" \o M \o "/" \o D \o "/" \o P
        \o "/fc" \o Y \o M \o D \o P \o "_00" \o index_file \o "_fp.nc"

\* the same, with year, month and day from t.strftime
FpPath(t, period, index_file) ==
    FpName(Pad4(DateOf(t).year), Pad2(DateOf(t).month), Pad2(DateOf(t).day),
           Pad2(period), Str(index_file))

----------------------------------------------------------------------------
(* the forecast-cycle locator of get_nora3_timeseries                      *)

\* PeriodOf with the bounds of the ladder compared with <=
PeriodOfInclusive(h) == IF h <= 6 THEN 0
                        ELSE IF h <= 12 THEN 6
                        ELSE IF h <= 18 THEN 12
                        ELSE 18

\* "find correct period folder": the ladder on current_time_with_offset.hour
PeriodOf(h) == IF h < 6 THEN 0
               ELSE IF h < 12 THEN 6
               ELSE IF h < 18 THEN 12
               ELSE 18

\* IndexFile counted from the first file used of a cycle, not from the cycle start
IndexFileFromFirstUsed(h, period) ==
    (IF h - period < 0 THEN h - period + 24 ELSE h - period) - 4

\* "find correct index file": index_file = <hour> - period, +24 if negative
IndexFile(h, period) == IF h - period < 0 THEN h - period + 24 ELSE h - period

\* Locate with the period folder taken from current_time itself, not from
\* current_time_with_offset
LocateNoOffset(current_time) ==
    [offset     |-> current_time - 4,
     period     |-> PeriodOf(HourOf(current_time)),
     index_file |-> IndexFile(HourOf(current_time), PeriodOf(HourOf(current_time)))]

\* one pass of the loop body, lines 482-504: the file of current_time
Locate(current_time) ==
    LET current_time_with_offset == current_time - 4
        period     == PeriodOf(HourOf(current_time_with_offset))
        index_file == IndexFile(HourOf(current_time), period)
    IN  [offset |-> current_time_with_offset, period |-> period, index_file |-> index_file]

\* PrimaryFile with the index counted from the hour of current_time_with_offset
PrimaryFileIndexFromOffset(current_time) ==
    FpPath(current_time - 4, PeriodOf(HourOf(current_time - 4)),
           IndexFile(HourOf(current_time - 4), PeriodOf(HourOf(current_time - 4))))

PrimaryFile(current_time) ==
    LET l == Locate(current_time) IN FpPath(l.offset, l.period, l.index_file)

\* SpinupFile with index_file itself in the name, not 3
SpinupFileSameIndex(current_time) ==
    FpPath(Locate(current_time).offset, Locate(current_time).period,
           Locate(current_time).index_file)

\* lines 508-514: the spinup file of a pass whose index_file is 4
SpinupFile(current_time) ==
    LET l == Locate(current_time) IN FpPath(l.offset, l.period, 3)

\* FirstTimestepFile with the period folder of current_time - 4h
FirstTimestepFileNoHour(current_time) ==
    FpPath(current_time - 4, PeriodOf(HourOf(current_time - 4)),
           IndexFile(HourOf(current_time) - 1, PeriodOf(HourOf(current_time - 4))))

\* lines 455-478: the file of the time step before start_time
FirstTimestepFile(current_time) ==
    LET current_time_with_offset == current_time - hour - 4
        period     == PeriodOf(HourOf(current_time_with_offset))
        index_file == IndexFile(HourOf(current_time) - 1, period)
    IN  FpPath(current_time_with_offset, period, index_file)

----------------------------------------------------------------------------
(* the archive: what a forecast file holds                                 *)

DigitVal(c) == CHOOSE n \in 0..9 : DigitStr[n + 1] = c

RECURSIVE Num(_)
Num(s) == IF Len(s) = 0 THEN 0
          ELSE 10 * Num(SubSeq(s, 1, Len(s) - 1)) + DigitVal(SubSeq(s, Len(s), Len(s)))

\* the cycle and forecast hour a file name stands for:
\* <data_dir>/YYYY/MM/DD/PP/fcYYYYMMDDPP_00<index>_fp.nc
ParsePath(p) ==
    LET b == Len(data_dir) + 1
    IN  [year   |-> Num(SubSeq(p, b + 1, b + 4)),
         month  |-> Num(SubSeq(p, b + 6, b + 7)),
         day    |-> Num(SubSeq(p, b + 9, b + 10)),
         period |-> Num(SubSeq(p, b + 12, b + 13)),
         index  |-> Num(SubSeq(p, b + 30, Len(p) - 6))]

\* the start of the forecast cycle of file p
CycleStart(p) ==
    LET f == ParsePath(p) IN datetime(f.year, f.month, f.day, f.period)

\* the single time step a file holds: forecast hour <index> of its cycle
ValidTime(p) == CycleStart(p) + ParsePath(p).index

\* the increment of an integrated field (the value of an instantaneous one)
\* during the hour ending at t, at the grid point of station s, in archive content d
DataEpoch == datetime(2020, 2, 27, 12)

Inc(t, s, d) == IF d = 1 THEN (t - DataEpoch) + s
                ELSE 1 + (((t - DataEpoch) * (s + d)) % 7)

\* an integrated field is the running sum since the start of the forecast cycle
RECURSIVE Acc(_, _, _, _)
Acc(cycle, k, s, d) == IF k <= 0 THEN 0 ELSE Acc(cycle, k - 1, s, d) + Inc(cycle + k, s, d)

integrated_params == {"integral_of_toa_net_downward_shortwave_flux_wrt_time",
    "integral_of_surface_net_downward_shortwave_flux_wrt_time",
    "integral_of_surface_downwelling_shortwave_flux_in_air_wrt_time",
    "snowfall_amount_acc",
    "precipitation_amount_acc"}

available_atm_params_nora3 == {"air_pressure_at_sea_level", "x_wind_10m", "y_wind_10m",
    "air_temperature_2m", "relative_humidity_2m", "cloud_area_fraction",
    "convective_cloud_area_fraction", "high_type_cloud_area_fraction",
    "medium_type_cloud_area_fraction", "low_type_cloud_area_fraction",
    "lwe_thickness_of_atmosphere_mass_content_of_water_vapor"} \cup integrated_params

sfx_params == {"ASN_VEG", "TALB_ISBA", "LAI", "VEG"}

\* nora3[param] of one file at the grid points of the nstations stations:
\* one sample [time, values]
Sample(cycle, k, prm, nstations, d) ==
    [time   |-> cycle + k,
     values |-> [s \in 1..nstations |->
                   IF prm \in integrated_params
                   THEN Acc(cycle, k, s, d)
                   ELSE Inc(cycle + k, s, d)]]

ReadFile(p, prm, nstations, d) ==
    Sample(CycleStart(p), ParsePath(p).index, prm, nstations, d)

\* xr.open_mfdataset(files, concat_dim="time", combine="nested")[param].isel(...):
\* the samples of the files, in list order
ReadFiles(files, prm, nstations, d) ==
    [i \in 1..Len(files) |-> ReadFile(files[i], prm, nstations, d)]

\* da.sel(time=slice(lo, hi))
SelTime(da, lo, hi) == SelectSeq(da, LAMBDA x : lo <= x.time /\ x.time <= hi)

\* da.sel(time=da.time.dt.hour == h).values
HourValues(da, h) ==
    LET sel == SelectSeq(da, LAMBDA x : HourOf(x.time) = h)
    IN  [i \in 1..Len(sel) |-> sel[i].values]

----------------------------------------------------------------------------
(* numpy arithmetic along the time axis: arrays of shape (time, 1, station) *)

\* elementwise difference over the station axis
VSub(x, y) == [s \in 1..Len(x) |-> x[s] - y[s]]

\* numpy broadcasting of the time axis: equal lengths, or one of them 1
NpCompatible(A, B) == Len(A) = Len(B) \/ Len(A) = 1 \/ Len(B) = 1

\* A - B, for compatible A and B
NpSub(A, B) ==
    LET n == IF Len(A) = 1 THEN Len(B) ELSE Len(A)
    IN  [k \in 1..n |-> VSub(A[IF Len(A) = 1 THEN 1 ELSE k], B[IF Len(B) = 1 THEN 1 ELSE k])]

\* da.loc[<n selected times>] = V is accepted when V has n rows, or one row
AssignOK(n, V) == Len(V) = n \/ Len(V) = 1

\* values[1:] and values[:-1]
Drop1(A)    == IF Len(A) = 0 THEN A ELSE SubSeq(A, 2, Len(A))
DropLast(A) == IF Len(A) = 0 THEN A ELSE SubSeq(A, 1, Len(A) - 1)

----------------------------------------------------------------------------
(* de-accumulation, lines 616-704                                          *)

\* the hours right after spinup (lines 622-633)
BoundaryHours == {4, 10, 16, 22}

\* the left operand of the statement that assigns the samples of hour-of-day h
Minuend(original, h) ==
    IF h = 0 THEN Drop1(HourValues(original, 0)) ELSE HourValues(original, h)

\* its right operand
Subtrahend(original, spinup, h) ==
    IF h \in BoundaryHours THEN HourValues(spinup, h - 1)
    ELSE IF h = 0 THEN DropLast(HourValues(original, 23))
    ELSE HourValues(original, h - 1)

\* how many samples the statement of hour h assigns
TargetCount(da, h) ==
    LET n == Len(HourValues(da, h)) IN IF h = 0 /\ n > 0 THEN n - 1 ELSE n

\* the statement of hour h runs without a shape error
HourStatementOK(da, spinup, h) ==
    /\ NpCompatible(Minuend(da, h), Subtrahend(da, spinup, h))
    /\ AssignOK(TargetCount(da, h), NpSub(Minuend(da, h), Subtrahend(da, spinup, h)))

\* the position of sample i among the samples of its hour-of-day
Rank(da, i) == Cardinality({j \in 1..i : HourOf(da[j].time) = HourOf(da[i].time)})

\* sample i after the 24 hour-of-day statements
HourStatements(da, spinup, i) ==
    LET h == HourOf(da[i].time)
        V == NpSub(Minuend(da, h), Subtrahend(da, spinup, h))
        k == IF h = 0 THEN Rank(da, i) - 1 ELSE Rank(da, i)
    IN  IF k = 0 THEN da[i].values
        ELSE V[IF Len(V) = 1 THEN 1 ELSE k]

\* lines 702-704: "for index, value in enumerate(nora3_da[0])" walks the height
\* axis (one entry); value[0] is the first station; the assignment zeroes the
\* whole first time step
Clamp(first) == IF first[1] < 0 THEN [s \in 1..Len(first) |-> 0] ELSE first

\* lines 616-704 on the loaded arrays; first_timestep is the array of the
\* first-timestep file after its time slice
Deaccumulate(da, spinup, first_timestep) ==
    IF \E h \in 0..23 : ~HourStatementOK(da, spinup, h)
    THEN [raised |-> "ValueError", da |-> <<>>]
    ELSE IF Len(da) = 0 \/ Len(first_timestep) = 0
    THEN [raised |-> "IndexError", da |-> <<>>]
    ELSE [raised |-> "",
          da |-> [i \in 1..Len(da) |->
                    [time   |-> da[i].time,
                     values |-> IF i = 1
                                THEN Clamp(VSub(da[1].values, first_timestep[1].values))
                                ELSE HourStatements(da, spinup, i)]]]

----------------------------------------------------------------------------
(* get_nora3_timeseries, lines 399-706                                     *)

Min(a, b) == IF a < b THEN a ELSE b

\* any(x < lo for x in xs) and any(x > hi for x in xs)   (lines 437, 439)
RangeCheckFails(xs, lo, hi) ==
    /\ \E i \in 1..Len(xs) : xs[i] < lo
    /\ \E i \in 1..Len(xs) : xs[i] > hi

\* LoopFilenames with the loop condition current_time < end_time
LoopFilenamesExclusive(start, end) ==
    IF start >= end THEN <<>>
    ELSE [i \in 1..(end - start) |-> PrimaryFile(start + (i - 1) * hour)]

\* the while loop of lines 481-516: one file per pass
LoopFilenames(start, end) ==
    IF start > end THEN <<>>
    ELSE [i \in 1..(end - start + 1) |-> PrimaryFile(start + (i - 1) * hour)]

\* the passes of the loop of lines 481-516 whose index_file is 4
SpinupPasses(start, end) ==
    SelectSeq([i \in 1..(end - start + 1) |-> start + (i - 1) * hour],
              LAMBDA current_time : Locate(current_time).index_file = 4)

\* the spinup file of each of these passes
SpinupFilesOf(passes) == [k \in 1..Len(passes) |-> SpinupFile(passes[k])]

\* the spinup files the same loop appends (lines 508-514)
LoopSpinupFilenames(prm, start, end) ==
    IF start > end \/ prm \notin integrated_params THEN <<>>
    ELSE SpinupFilesOf(SpinupPasses(start, end))

\* lines 527-529: the list without the files of the 2020-02-29 18 cycle
Filtered(prm, files) ==
    IF prm \in integrated_params
    THEN SelectSeq(files, LAMBDA x : ~startswith(x, excluded_prefix))
    ELSE files

\* xr.open_mfdataset(files, ...) raises on an empty list, and on a file it cannot read
MfOpenFails(files, reads_corrupt) ==
    \/ Len(files) = 0
    \/ ~reads_corrupt /\ \E i \in 1..Len(files) : startswith(files[i], excluded_prefix)

\* np.zeros((n, 1)) samples at the given times (lines 598-613)
Zeros(times, nstations) ==
    [i \in 1..Len(times) |-> [time |-> times[i], values |-> [s \in 1..nstations |-> 0]]]

\* lines 597-601
PatchedEnd(da, end, nstations) ==
    IF end = datetime(2020, 2, 29, 23)
    THEN da \o Zeros(<<datetime(2020, 2, 29, 22), datetime(2020, 2, 29, 23)>>, nstations)
    ELSE da

\* lines 603-606
PatchedSpinup(spinup, end, nstations) ==
    IF end = datetime(2020, 2, 29, 23)
    THEN spinup \o Zeros(<<datetime(2020, 2, 29, 21)>>, nstations)
    ELSE spinup

\* lines 608-613
PatchedStart(da, start, nstations) ==
    IF start = datetime(2020, 3, 1, 0)
    THEN Zeros(<<datetime(2020, 3, 1, 0), datetime(2020, 3, 1, 1),
                 datetime(2020, 3, 1, 2), datetime(2020, 3, 1, 3)>>, nstations) \o da
    ELSE da

NoCall == [raised |-> "", first_timestep_filename |-> "", located |-> <<>>,
           filenames |-> <<>>, spinup_filenames |-> <<>>, opened |-> <<>>, da |-> <<>>]

\* lines 448-529: the file lists, from the first-timestep file and the two
\* lists the loop builds
FileLists(prm, first, loc, spinloc) ==
    [NoCall EXCEPT !.first_timestep_filename = first,
                   !.located = loc,
                   !.filenames = Filtered(prm, loc),
                   !.spinup_filenames = Filtered(prm, spinloc)]

\* lines 578-704, once both multi-file datasets are open
Nora3Deacc(built, deacc) ==
    [built EXCEPT !.opened = built.filenames \o <<built.first_timestep_filename>>
                                \o built.spinup_filenames,
                  !.raised = deacc.raised,
                  !.da = deacc.da]

\* lines 534-706, on the file lists built
Nora3Open(prm, nstations, start, end, d, reads_corrupt, built) ==
    IF MfOpenFails(built.filenames, reads_corrupt)
    THEN [built EXCEPT !.raised = "OSError"]
    ELSE IF prm \notin integrated_params
    THEN [built EXCEPT !.opened = built.filenames,
                       !.da = SelTime(ReadFiles(built.filenames, prm, nstations, d), start, end)]
    ELSE IF MfOpenFails(built.spinup_filenames, reads_corrupt)
    THEN [built EXCEPT !.opened = built.filenames \o <<built.first_timestep_filename>>,
                       !.raised = "OSError"]
    ELSE Nora3Deacc(built,
            Deaccumulate(
                PatchedStart(
                    PatchedEnd(SelTime(ReadFiles(built.filenames, prm, nstations, d), start, end),
                               end, nstations),
                    start, nstations),
                PatchedSpinup(
                    SelTime(ReadFiles(built.spinup_filenames, prm, nstations, d), start, end - hour),
                    end, nstations),
                SelectSeq(ReadFiles(<<built.first_timestep_filename>>, prm, nstations, d),
                          LAMBDA x : x.time <= start - hour)))

----------------------------------------------------------------------------
(* _get_nora3_timeseries_sfx, lines 315-395                                *)

\* lines 322-323
AugmentedStart(start) == start - (HourOf(start) % 3)

AugmentedEnd(end) == end + (HourOf(end) % 3)

\* lines 343-348: the name of the surface file of current_time
SfxFile(current_time) ==
    data_dir \o "/" \o Pad4(DateOf(current_time).year)
        \o "/" \o Pad2(DateOf(current_time).month)
        \o "/" \o Pad2(DateOf(current_time).day)
        \o "/" \o Pad2(PeriodOf(HourOf(current_time)))
        \o "/fc" \o Pad4(DateOf(current_time).year) \o Pad2(DateOf(current_time).month)
        \o Pad2(DateOf(current_time).day) \o Pad2(PeriodOf(HourOf(current_time)))
        \o "_00" \o Str(IndexFile(HourOf(current_time), PeriodOf(HourOf(current_time))))
        \o "_full_sfx.nc"

\* the while loop of lines 327-350: one file every 3 hours
SfxLoopFilenames(augmented_start_time, augmented_end_time) ==
    IF augmented_start_time > augmented_end_time THEN <<>>
    ELSE [i \in 1..((augmented_end_time - augmented_start_time) \div 3 + 1) |->
             SfxFile(augmented_start_time + 3 * (i - 1))]

sfx_skipped_prefix == "/lustre/storeB/project/fou/om/WINDSURFER/HM40h12/netcdf/2017/01/26/"

\* line 356
SfxFiltered(files) == SelectSeq(files, LAMBDA x : ~startswith(x, sfx_skipped_prefix))

\* the time step a surface file holds: <data_dir>/YYYY/MM/DD/PP/fcYYYYMMDDPP_00<index>_full_sfx.nc
SfxParsePath(p) ==
    [year   |-> Num(SubSeq(p, Len(data_dir) + 2, Len(data_dir) + 5)),
     month  |-> Num(SubSeq(p, Len(data_dir) + 7, Len(data_dir) + 8)),
     day    |-> Num(SubSeq(p, Len(data_dir) + 10, Len(data_dir) + 11)),
     period |-> Num(SubSeq(p, Len(data_dir) + 13, Len(data_dir) + 14)),
     index  |-> Num(SubSeq(p, Len(data_dir) + 31, Len(p) - 12))]

SfxTimeOf(f) == datetime(f.year, f.month, f.day, f.period) + f.index

SfxValidTime(p) == SfxTimeOf(SfxParsePath(p))

SfxReadFiles(files, prm, nstations, d) ==
    [i \in 1..Len(files) |->
        [time   |-> SfxValidTime(files[i]),
         values |-> [s \in 1..nstations |-> Inc(SfxValidTime(files[i]), s, d)]]]

\* the position of the last sample of da at or before t
LastAtOrBefore(da, t) ==
    CHOOSE i \in 1..Len(da) :
        /\ da[i].time <= t
        /\ \A j \in 1..Len(da) : da[j].time <= t => j <= i

\* linear interpolation at t between the samples a and b, a.time <= t < b.time
Between(a, b, t) ==
    [time   |-> t,
     values |-> [s \in 1..Len(a.values) |->
                   a.values[s] + ((t - a.time) * (b.values[s] - a.values[s]))
                                     \div (b.time - a.time)]]

\* da.resample(time="1H").interpolate(): every hour from the first to the
\* last sample of da
Resample1H(da) ==
    IF Len(da) = 0 THEN <<>>
    ELSE [k \in 1..(da[Len(da)].time - da[1].time + 1) |->
             IF LastAtOrBefore(da, da[1].time + k - 1) = Len(da)
             THEN da[Len(da)]
             ELSE Between(da[LastAtOrBefore(da, da[1].time + k - 1)],
                          da[LastAtOrBefore(da, da[1].time + k - 1) + 1],
                          da[1].time + k - 1)]

\* lines 358-395, on the file list built
SfxOpen(prm, nstations, start, end, d, loc) ==
    IF Len(SfxFiltered(loc)) = 0
    THEN [NoCall EXCEPT !.located = loc, !.raised = "OSError"]
    ELSE [NoCall EXCEPT
            !.located = loc,
            !.filenames = SfxFiltered(loc),
            !.opened = SfxFiltered(loc),
            !.da = SelTime(Resample1H(SelTime(SfxReadFiles(SfxFiltered(loc), prm, nstations, d),
                                              AugmentedStart(start), AugmentedEnd(end))),
                           start, end)]

Nora3Sfx(prm, nstations, start, end, d) ==
    SfxOpen(prm, nstations, start, end, d,
            SfxLoopFilenames(AugmentedStart(start), AugmentedEnd(end)))

----------------------------------------------------------------------------

\* the call get_nora3_timeseries(prm, lons, lats, start, end) on archive
\* content d
Nora3(prm, lons, lats, start, end, d, reads_corrupt) ==
    IF prm \notin available_atm_params_nora3 /\ prm \notin sfx_params
    THEN [NoCall EXCEPT !.raised = "RuntimeError: Undefined parameter"]
    ELSE IF RangeCheckFails(lats, 44, 83)
    THEN [NoCall EXCEPT !.raised = "RuntimeError: Latitude out of range"]
    ELSE IF RangeCheckFails(lons, -30, 85)
    THEN [NoCall EXCEPT !.raised = "RuntimeError: Longitude out of range"]
    ELSE IF prm \in sfx_params
    THEN Nora3Sfx(prm, Min(Len(lons), Len(lats)), start, end, d)
    ELSE Nora3Open(prm, Min(Len(lons), Len(lats)), start, end, d, reads_corrupt,
                   FileLists(prm,
                             IF prm \in integrated_params THEN FirstTimestepFile(start) ELSE "",
                             LoopFilenames(start, end),
                             LoopSpinupFilenames(prm, start, end)))

----------------------------------------------------------------------------
(* get_era5_timeseries, lines 209-256                                      *)

available_atm_params == {"msl", "u10", "v10"}

available_wave_params == {"msl", "mwd", "mp2", "pp1d", "swh"}

era5_data_dir == "/lustre/storeB/project/fou/om/ERA/ERA5"

\* (start_time + relativedelta(months=+n)).strftime("%Y%m")
MonthStamp(start, n) ==
    LET c == DateOf(start)
        m == c.year * 12 + (c.month - 1) + n
    IN  Pad4(m \div 12) \o Pad2((m % 12) + 1)

\* lines 235-247: the monthly files, or "" for the RuntimeError of line 247
\* line 236
MonthCount(start, end) ==
    (DateOf(end).year - DateOf(start).year) * 12 + (DateOf(end).month - DateOf(start).month) + 1

\* lines 235-245: the monthly files
Era5Filenames(prm, start, end, useatm) ==
    IF prm \in available_atm_params /\ useatm
    THEN [i \in 1..MonthCount(start, end) |->
            era5_data_dir \o "/" \o "atm/era5_atm_CDS_" \o MonthStamp(start, i - 1) \o ".nc"]
    ELSE [i \in 1..MonthCount(start, end) |->
            era5_data_dir \o "/" \o "wave/era5_wave_CDS_" \o MonthStamp(start, i - 1) \o ".nc"]

\* lines 249-256, on the files found
Era5Open(files, start, end, d) ==
    IF Len(files) = 0
    THEN [NoCall EXCEPT !.raised = "OSError"]
    ELSE [NoCall EXCEPT !.filenames = files, !.opened = files,
                        !.da = IF start > end THEN <<>>
                               ELSE [i \in 1..(end - start + 1) |->
                                       [time |-> start + i - 1,
                                        values |-> <<Inc(start + i - 1, 1, d)>>]]]

\* the call get_era5_timeseries(prm, lon_, lat_, start, end, useatm)
Era5(prm, lon_, lat_, start, end, useatm, d) ==
    IF prm \notin available_atm_params /\ prm \notin available_wave_params
    THEN [NoCall EXCEPT !.raised = "RuntimeError: Undefined parameter"]
    ELSE IF -90 > lat_ /\ lat_ > 90
    THEN [NoCall EXCEPT !.raised = "RuntimeError: Latitude out of range"]
    ELSE IF 0 > lon_ /\ lon_ >= 360
    THEN [NoCall EXCEPT !.raised = "RuntimeError: Longitude out of range"]
    ELSE IF ~(prm \in available_atm_params /\ useatm) /\ prm \notin available_wave_params
    THEN [NoCall EXCEPT !.raised = "RuntimeError: not found in ERA5 wave data set"]
    ELSE Era5Open(Era5Filenames(prm, start, end, useatm), start, end, d)

----------------------------------------------------------------------------
(* get_timeseries, lines 117-153                                           *)

\* atm_params_nora3, lines 135-139
atm_params_nora3 == [msl |-> "air_pressure_at_sea_level",
                     u10 |-> "x_wind_10m",
                     v10 |-> "y_wind_10m"]

\* InsideNora3 with the bounds of the domain excluded
InsideNora3Strict(lon_, lat_, start) ==
    /\ start > datetime(1997, 8, 1, 4)
    /\ 44 < lat_ /\ lat_ < 83
    /\ -30 < lon_ /\ lon_ < 85

\* line 150: "inside time interval and domain for NORA3?"
InsideNora3(lon_, lat_, start) ==
    /\ start >= datetime(1997, 8, 1, 4)
    /\ 44 <= lat_ /\ lat_ <= 83
    /\ -30 <= lon_ /\ lon_ <= 85

\* OutsideDataSet with the two bounds themselves rejected
OutsideDataSetInclusive(t) == datetime(2019, 12, 31, 0) <= t \/ t <= datetime(1979, 1, 1, 0)

\* lines 144-147, for one of the two times
OutsideDataSet(t) == datetime(2019, 12, 31, 0) < t \/ t < datetime(1979, 1, 1, 0)

NoExtractor == [fn |-> "", param |-> "", lon |-> 0, lat |-> 0]

\* the call get_timeseries(prm, lon_, lat_, start, end, useatm): the branch
\* taken (source), the extractor call made (callee) and what that call did (inner)
GetTimeseries(prm, lon_, lat_, start, end, useatm, d, reads_corrupt) ==
    IF prm \notin available_atm_params /\ prm \notin available_wave_params
    THEN [source |-> "", callee |-> NoExtractor,
          inner |-> [NoCall EXCEPT !.raised = "RuntimeError: Undefined parameter"]]
    ELSE IF OutsideDataSet(start)
    THEN [source |-> "", callee |-> NoExtractor,
          inner |-> [NoCall EXCEPT !.raised = "RuntimeError: Start time outside data set time interval"]]
    ELSE IF OutsideDataSet(end)
    THEN [source |-> "", callee |-> NoExtractor,
          inner |-> [NoCall EXCEPT !.raised = "RuntimeError: End time outside data set time interval"]]
    ELSE IF InsideNora3(lon_, lat_, start)
    THEN IF prm \notin DOMAIN atm_params_nora3
         THEN [source |-> "NORA3", callee |-> NoExtractor,
               inner |-> [NoCall EXCEPT !.raised = "KeyError"]]
         ELSE [source |-> "NORA3",
               callee |-> [fn |-> "get_nora3_timeseries", param |-> atm_params_nora3[prm],
                           lon |-> lat_, lat |-> lon_],
               inner |-> Nora3(atm_params_nora3[prm], <<lat_>>, <<lon_>>, start, end, d, reads_corrupt)]
    ELSE [source |-> "ERA5",
          callee |-> [fn |-> "get_era5_timeseries", param |-> prm, lon |-> lat_, lat |-> lon_],
          inner |-> Era5(prm, lat_, lon_, start, end, useatm, d)]

----------------------------------------------------------------------------
(* the calls                                                               *)

\* bounds of the inputs
MaxStartOffset == 48
MaxSpan        == 30
MaxData        == 2
MaxGtSpan      == 2

\* start times of get_nora3_timeseries: every hour of 2020-02-28 and of
\* 2020-02-29, and 2020-03-01 00:00
StartBase == datetime(2020, 2, 28, 0)

\* station lists [lon, lat]: inside the domain, and outside it in each direction
InsideStations == {[lon |-> <<5>>, lat |-> <<60>>],
                   [lon |-> <<5, 10>>, lat |-> <<60, 70>>]}

OutsideStations == {[lon |-> <<5>>, lat |-> <<40>>],
                    [lon |-> <<5>>, lat |-> <<90>>],
                    [lon |-> <<5, 10>>, lat |-> <<40, 90>>],
                    [lon |-> <<5, 10>>, lat |-> <<60, 90>>],
                    [lon |-> <<-40>>, lat |-> <<60>>],
                    [lon |-> <<100>>, lat |-> <<60>>],
                    [lon |-> <<-40, 100>>, lat |-> <<60, 70>>],
                    [lon |-> <<-40, 5>>, lat |-> <<60, 70>>]}

Nora3Params == {"air_pressure_at_sea_level", "precipitation_amount_acc", "swh"}

\* times around the bounds get_timeseries compares with
GtTimes == {datetime(1978, 12, 31, 23), datetime(1979, 1, 1, 0), datetime(1979, 1, 1, 1),
            datetime(1997, 8, 1, 3), datetime(1997, 8, 1, 4), datetime(1997, 8, 1, 5),
            datetime(2019, 12, 30, 23), datetime(2019, 12, 31, 0), datetime(2019, 12, 31, 1)}

GtParams == available_atm_params \cup available_wave_params \cup {"t2m"}

GtLons == {-31, -30, 85, 86}

GtLats == {43, 44, 60, 83, 84}

\* the longest window tried with more than one station
MaxMultiSpan == 6

\* the window [StartBase + o, StartBase + o + n] holds an hour whose file is in
\* the 2020-02-29 18 cycle (2020-02-29 22:00 to 2020-03-01 03:00)
ReachesExcluded(o, n) ==
    /\ StartBase + o <= datetime(2020, 3, 1, 3)
    /\ StartBase + o + n >= datetime(2020, 2, 29, 22)

\* the inputs tried: every window for one station inside the domain and the
\* windows up to MaxMultiSpan for two (an integrated parameter never hands the
\* 2020-02-29 cycle-18 files to open_mfdataset, so whether it can read them is
\* left TRUE, as it is for a window that holds none of them), and two windows
\* for the other station lists and the undefined parameter
Nora3Input(prm, st, o, n, d, rc) ==
    IF st \in InsideStations /\ prm \in available_atm_params_nora3
    THEN /\ (Len(st.lon) > 1 => n <= MaxMultiSpan)
         /\ IF prm \in integrated_params THEN rc
            ELSE d = 1 /\ (~rc => ReachesExcluded(o, n))
    ELSE o = 0 /\ n \in 0..1 /\ d = 1 /\ rc

Init ==
    /\ op = "idle"
    /\ param = ""
    /\ lon = <<>>
    /\ lat = <<>>
    /\ start_time = 0
    /\ end_time = 0
    /\ use_atm = TRUE
    /\ data = 1
    /\ mf_reads_corrupt = TRUE
    /\ first_timestep_filename = ""
    /\ located = <<>>
    /\ filenames = <<>>
    /\ spinup_filenames = <<>>
    /\ opened = <<>>
    /\ raised = ""
    /\ source = ""
    /\ callee = NoExtractor
    /\ result = <<>>
    /\ args = <<>>
    /\ ret = <<>>

\* what a call of an extractor leaves behind
Leaves(r) ==
    /\ first_timestep_filename' = r.first_timestep_filename
    /\ located' = r.located
    /\ filenames' = r.filenames
    /\ spinup_filenames' = r.spinup_filenames
    /\ opened' = r.opened
    /\ raised' = r.raised
    /\ result' = r.da

\* what a call of get_timeseries leaves behind
GtLeaves(r) ==
    /\ source' = r.source
    /\ callee' = r.callee
    /\ Leaves(r.inner)

\* get_nora3_timeseries(param, lon, lat, start_time, end_time), called directly
\* (as write_SUNPOINT_timeseries does, with the station lists)
CallNora3 ==
    /\ op = "idle"
    /\ \E prm \in Nora3Params, st \in InsideStations \cup OutsideStations,
          o \in 0..MaxStartOffset, n \in -1..MaxSpan,
          d \in 1..MaxData, rc \in BOOLEAN :
          /\ Nora3Input(prm, st, o, n, d, rc)
          /\ op' = "get_nora3_timeseries"
          /\ param' = prm
          /\ lon' = st.lon
          /\ lat' = st.lat
          /\ start_time' = StartBase + o
          /\ end_time' = StartBase + o + n
          /\ data' = d
          /\ mf_reads_corrupt' = rc
          /\ Leaves(Nora3(prm, st.lon, st.lat, StartBase + o, StartBase + o + n, d, rc))
          /\ UNCHANGED <<use_atm, source, callee, args, ret>>

\* get_timeseries(param, lon, lat, start_time, end_time, use_atm)
CallGetTimeseries ==
    /\ op = "idle"
    /\ \E prm \in GtParams, x \in GtLons, y \in GtLats, st \in GtTimes,
          n \in -1..MaxGtSpan, ua \in BOOLEAN :
          /\ op' = "get_timeseries"
          /\ param' = prm
          /\ lon' = <<x>>
          /\ lat' = <<y>>
          /\ start_time' = st
          /\ end_time' = st + n
          /\ use_atm' = ua
          /\ GtLeaves(GetTimeseries(prm, x, y, st, st + n, ua, data, mf_reads_corrupt))
          /\ UNCHANGED <<data, mf_reads_corrupt, args, ret>>

\* the call is over: the caller goes on
Return ==
    /\ op # "idle"
    /\ op' = "idle"
    /\ param' = ""
    /\ lon' = <<>>
    /\ lat' = <<>>
    /\ start_time' = 0
    /\ end_time' = 0
    /\ use_atm' = TRUE
    /\ data' = 1
    /\ mf_reads_corrupt' = TRUE
    /\ source' = ""
    /\ callee' = NoExtractor
    /\ Leaves(NoCall)
    /\ UNCHANGED <<args, ret>>

Next == CallNora3 \/ CallGetTimeseries \/ Return

Spec == Init /\ [][Next]_vars

\* get_nora3_timeseries for a surface parameter: windows that start on
\* 2017-01-25 and reach into the skipped day 2017-01-26; archive content 1 is
\* linear in time
MaxSfxStart == 23
MaxSfxSpan  == 14
SfxBase == datetime(2017, 1, 25, 0)

CallNora3Sfx ==
    /\ op = "idle"
    /\ \E prm \in {"LAI", "VEG"}, st \in InsideStations,
          o \in 0..MaxSfxStart, n \in -1..MaxSfxSpan :
          /\ op' = "get_nora3_timeseries"
          /\ param' = prm
          /\ lon' = st.lon
          /\ lat' = st.lat
          /\ start_time' = SfxBase + o
          /\ end_time' = SfxBase + o + n
          /\ Leaves(Nora3(prm, st.lon, st.lat, SfxBase + o, SfxBase + o + n, 1, TRUE))
          /\ UNCHANGED <<use_atm, data, mf_reads_corrupt, source, callee, args, ret>>

NextSfx == CallNora3Sfx \/ Return

SpecSfx == Init /\ [][NextSfx]_vars

----------------------------------------------------------------------------
(* parts of the calls, applied on their own to inputs from bounded sets    *)

\* the variables of the calls, while a part is applied on its own
callvars == <<param, lon, lat, start_time, end_time, use_atm, data, mf_reads_corrupt,
              first_timestep_filename, located, filenames, spinup_filenames, opened,
              raised, source, callee, result>>

NoCallInProgress ==
    /\ op = "idle"
    /\ param = ""
    /\ lon = <<>>
    /\ lat = <<>>
    /\ start_time = 0
    /\ end_time = 0
    /\ use_atm = TRUE
    /\ data = 1
    /\ mf_reads_corrupt = TRUE
    /\ first_timestep_filename = ""
    /\ located = <<>>
    /\ filenames = <<>>
    /\ spinup_filenames = <<>>
    /\ opened = <<>>
    /\ raised = ""
    /\ source = ""
    /\ callee = NoExtractor
    /\ result = <<>>

----------------------------------------------------------------------------
(* write_SUNPOINT_timeseries, lines 715-776                                *)

\* timedelta(days=10), in hours
stride_length == 240

\* lines 728-731 from the previous stride end: the next stride; is_end_time
\* says that stride_end_time is the object end_time itself (line 731), which
\* is what the loop condition of line 726 tests
NextStride(previous_end, end) ==
    IF previous_end + hour + stride_length - hour > end
    THEN [stride_start_time |-> previous_end + hour, stride_end_time |-> end,
          is_end_time |-> TRUE]
    ELSE [stride_start_time |-> previous_end + hour,
          stride_end_time |-> previous_end + hour + stride_length - hour,
          is_end_time |-> FALSE]

\* the locals after lines 723-724
SunpointLocals(start) ==
    [stride_start_time |-> start - hour, stride_end_time |-> start - hour,
     is_end_time |-> FALSE, strides |-> <<>>, written |-> 0, pc |-> "loop"]

\* the locals after a pass whose call of get_nora3_timeseries left r
AfterPass(locals, stride, r) ==
    [stride_start_time |-> stride.stride_start_time,
     stride_end_time   |-> stride.stride_end_time,
     is_end_time       |-> stride.is_end_time,
     strides           |-> Append(locals.strides,
                                  [stride_start_time |-> stride.stride_start_time,
                                   stride_end_time   |-> stride.stride_end_time]),
     written           |-> locals.written + Len(r.da),
     pc                |-> IF r.raised = "" THEN "loop" ELSE "raised"]

\* the intervals tried: from SunBase, of 1 to MaxSunSpan + 1 hours
MaxSunSpan == 245
SunBase == datetime(2019, 6, 1, 0)
SunStations == [lon |-> <<5>>, lat |-> <<60>>]

InitSunpoint ==
    /\ NoCallInProgress
    /\ args \in {[param |-> "air_pressure_at_sea_level", stations |-> SunStations,
                   start_time |-> SunBase, end_time |-> SunBase + n] : n \in 0..MaxSunSpan}
    /\ ret = SunpointLocals(SunBase)

\* what one pass leaves behind, its call of get_nora3_timeseries included
PassLeaves(stride, r) ==
    /\ start_time' = stride.stride_start_time
    /\ end_time' = stride.stride_end_time
    /\ Leaves(r)
    /\ ret' = AfterPass(ret, stride, r)

PassOf(stride) ==
    PassLeaves(stride,
               Nora3(args.param, args.stations.lon, args.stations.lat,
                     stride.stride_start_time, stride.stride_end_time, 1, TRUE))

\* one pass of the while loop of lines 726-776
StridePass ==
    /\ ret.pc = "loop"
    /\ ~ret.is_end_time
    /\ op' = "write_SUNPOINT_timeseries"
    /\ param' = args.param
    /\ lon' = args.stations.lon
    /\ lat' = args.stations.lat
    /\ PassOf(NextStride(ret.stride_end_time, args.end_time))
    /\ UNCHANGED <<use_atm, data, mf_reads_corrupt, source, callee, args>>

\* the loop condition of line 726 is false: the function returns
StrideLoopExit ==
    /\ ret.pc = "loop"
    /\ ret.is_end_time
    /\ ret' = [ret EXCEPT !.pc = "done"]
    /\ UNCHANGED <<op, args>>
    /\ UNCHANGED callvars

NextSunpoint == StridePass \/ StrideLoopExit

SpecSunpoint == InitSunpoint /\ [][NextSunpoint]_vars

----------------------------------------------------------------------------
(* the sign check of the first time step                                   *)

\* the sign check of the first time step (lines 700-704), on the first
\* values of 1 to MaxStations stations
MaxStations == 3
MaxAbsValue == 2

FirstValues ==
    UNION {[1..n -> (-MaxAbsValue)..MaxAbsValue] : n \in 1..MaxStations}

InitClamp ==
    /\ NoCallInProgress
    /\ args \in {[first |-> v] : v \in FirstValues}
    /\ ret = <<>>

FirstValueSignCheck ==
    /\ op = "idle"
    /\ op' = "first_value_sign_check"
    /\ ret' = [first |-> Clamp(args.first)]
    /\ UNCHANGED args
    /\ UNCHANGED callvars

NextClamp == FirstValueSignCheck

SpecClamp == InitClamp /\ [][NextClamp]_vars

----------------------------------------------------------------------------
(* get_closest_water_point, lines 79-115                                   *)

missing_value == -32767

\* data[i, j] of a numpy array: an index from -n to -1 counts from the end,
\* one outside -n .. n-1 raises IndexError
IndexInRange(grid, current) ==
    /\ -Len(grid) <= current[1] /\ current[1] < Len(grid)
    /\ -Len(grid[1]) <= current[2] /\ current[2] < Len(grid[1])

\* the cell (row, column from 0) that the index pair stands for
CellOf(grid, current) ==
    <<current[1] % Len(grid), current[2] % Len(grid[1])>>

Item(grid, current) ==
    grid[CellOf(grid, current)[1] + 1][CellOf(grid, current)[2] + 1]

\* line 94, in the order the neighbours are appended
dirs == <<<<1, 0>>, <<-1, 0>>, <<0, 1>>, <<0, -1>>>>

Neighbours(current) ==
    [k \in 1..4 |-> <<current[1] + dirs[k][1], current[2] + dirs[k][2]>>]

NoPoint == [raised |-> "", found |-> <<>>, tested |-> <<>>, count |-> 0]

\* the while loop of lines 100-115 from queue q on; tested is the sequence of
\* index pairs read at line 108 so far
RECURSIVE WaterLoop(_, _, _, _, _)
WaterLoop(q, visited, tested, count, grid) ==
    IF q = <<>>
    THEN [NoPoint EXCEPT !.tested = tested, !.count = count]
    ELSE IF Head(q) \in visited
    THEN WaterLoop(Tail(q), visited, tested, count, grid)
    ELSE IF ~IndexInRange(grid, Head(q))
    THEN [NoPoint EXCEPT !.raised = "IndexError",
                         !.tested = Append(tested, Head(q)), !.count = count]
    ELSE IF Item(grid, Head(q)) # missing_value
    THEN [NoPoint EXCEPT !.found = Head(q),
                         !.tested = Append(tested, Head(q)), !.count = count]
    ELSE WaterLoop(Tail(q) \o Neighbours(Head(q)), visited \cup {Head(q)},
                   Append(tested, Head(q)), count + 1, grid)

get_closest_water_point(start_i, start_j, grid) ==
    WaterLoop(<<<<start_i, start_j>>>>, {}, <<>>, 0, grid)

\* the grids tried: up to MaxRows x MaxCols cells, of which 1 to MaxWater hold
\* a value and the others missing_value
MaxRows  == 3
MaxCols  == 3
MaxWater == 2

Cells(rows, cols) == (0..(rows - 1)) \X (0..(cols - 1))

GridOf(rows, cols, water) ==
    [i \in 1..rows |-> [j \in 1..cols |->
        IF <<i - 1, j - 1>> \in water THEN 0 ELSE missing_value]]

Grids ==
    UNION {{GridOf(rows, cols, water) :
                water \in {w \in SUBSET Cells(rows, cols) :
                               1 <= Cardinality(w) /\ Cardinality(w) <= MaxWater}} :
           rows \in 1..MaxRows, cols \in 1..MaxCols}

InitWater ==
    /\ NoCallInProgress
    /\ args \in UNION {{[start_i |-> c[1], start_j |-> c[2], data |-> g] :
                            c \in Cells(Len(g), Len(g[1]))} : g \in Grids}
    /\ ret = <<>>

CallWaterPoint ==
    /\ op = "idle"
    /\ op' = "get_closest_water_point"
    /\ ret' = get_closest_water_point(args.start_i, args.start_j, args.data)
    /\ UNCHANGED args
    /\ UNCHANGED callvars

NextWater == CallWaterPoint

SpecWater == InitWater /\ [][NextWater]_vars

----------------------------------------------------------------------------
(* the grid-point lookup of lines 551-559 (and 361-369), for one station   *)

Abs(x) == IF x < 0 THEN -x ELSE x

Max(a, b) == IF a < b THEN b ELSE a

\* cor = np.maximum(np.abs(longitude - lon_elem), np.abs(latitude - lat_elem))
Cor(longitude, latitude, lon_elem, lat_elem) ==
    [y \in 1..Len(longitude) |-> [x \in 1..Len(longitude[1]) |->
        Max(Abs(longitude[y][x] - lon_elem), Abs(latitude[y][x] - lat_elem))]]

\* np.min(cor)
NpMin(cor) ==
    CHOOSE v \in {cor[y][x] : y \in 1..Len(cor), x \in 1..Len(cor[1])} :
        \A y \in 1..Len(cor), x \in 1..Len(cor[1]) : v <= cor[y][x]

\* NpWhere with the cells scanned column by column
NpWhereColumnMajor(cor, v) ==
    SelectSeq([k \in 1..(Len(cor) * Len(cor[1])) |->
                  <<(k - 1) % Len(cor), (k - 1) \div Len(cor)>>],
              LAMBDA c : cor[c[1] + 1][c[2] + 1] = v)

\* np.where(cor == v): the index pairs (from 0) of the cells equal to v, in
\* row-major order; np.where(...)[0] is their first and [1] their second
\* components
NpWhere(cor, v) ==
    SelectSeq([k \in 1..(Len(cor) * Len(cor[1])) |->
                  <<(k - 1) \div Len(cor[1]), (k - 1) % Len(cor[1])>>],
              LAMBDA c : cor[c[1] + 1][c[2] + 1] = v)

\* lines 558-559, on cor
FirstMinimum(cor) ==
    [y_idx |-> NpWhere(cor, NpMin(cor))[1][1],
     x_idx |-> NpWhere(cor, NpMin(cor))[1][2]]

GridLookup(longitude, latitude, lon_elem, lat_elem) ==
    FirstMinimum(Cor(longitude, latitude, lon_elem, lat_elem))

\* the grids tried: up to MaxGridRows x MaxGridCols nodes of a skewed regular
\* grid (steps 1..MaxStep along a row and a column, skew 0 or 1), and query
\* points on and around its nodes
MaxGridRows == 3
MaxGridCols == 3
MaxStep     == 2
MaxQuery    == 5

LonLatGrid(rows, cols, dx, dy, kx, ky) ==
    [longitude |-> [y \in 1..rows |-> [x \in 1..cols |-> (x - 1) * dx + (y - 1) * kx]],
     latitude  |-> [y \in 1..rows |-> [x \in 1..cols |-> (y - 1) * dy + (x - 1) * ky]]]

LonLatGrids ==
    {LonLatGrid(rows, cols, dx, dy, kx, ky) :
        rows \in 1..MaxGridRows, cols \in 1..MaxGridCols,
        dx \in 1..MaxStep, dy \in 1..MaxStep, kx \in 0..1, ky \in 0..1}

InitLookup ==
    /\ NoCallInProgress
    /\ args \in {[longitude |-> g.longitude, latitude |-> g.latitude,
                   lon_elem |-> qx, lat_elem |-> qy] :
                      g \in LonLatGrids, qx \in (-1)..MaxQuery, qy \in (-1)..MaxQuery}
    /\ ret = <<>>

LookupGridPoint ==
    /\ op = "idle"
    /\ op' = "grid_point_lookup"
    /\ ret' = GridLookup(args.longitude, args.latitude, args.lon_elem, args.lat_elem)
    /\ UNCHANGED args
    /\ UNCHANGED callvars

NextLookup == LookupGridPoint

SpecLookup == InitLookup /\ [][NextLookup]_vars

----------------------------------------------------------------------------
(* properties                                                              *)

Nora3Called == op = "get_nora3_timeseries"

GtCalled == op = "get_timeseries"

Returned == raised = ""

Accumulated == param \in integrated_params

\* the window, its spinup files and its first-timestep file stay clear of the
\* 2020-02-29 18 cycle (whose files hold 2020-02-29 21:00 to 2020-03-01 03:00)
RegularWindow ==
    \/ end_time < datetime(2020, 2, 29, 21)
    \/ start_time > datetime(2020, 3, 1, 4)

\* the raw sample of the archive valid at t, and the spinup sample valid at
\* t - 1h of the cycle whose first used hour is t
RawAt(t) == ReadFile(PrimaryFile(t), param, Len(lon), data).values

SpinupAt(t) == ReadFile(SpinupFile(t), param, Len(lon), data).values

\* the start of the forecast cycle of a parsed file name
CycleOf(f) == datetime(f.year, f.month, f.day, f.period)

\* C1: in the list the loop builds, the file of t+1h is either the next index
\* of the same forecast cycle, or index 4 of the cycle that starts 6 hours
\* later; no two hours have the same file name.
C1_SequentialCycleFiles ==
    /\ \A i \in 1..(Len(located) - 1) :
          LET this  == ParsePath(located[i])
              after == ParsePath(located[i + 1])
          IN  \/ /\ CycleOf(after) = CycleOf(this)
                 /\ after.index = this.index + 1
              \/ /\ CycleOf(after) = CycleOf(this) + 6
                 /\ after.index = 4
    /\ \A i, j \in 1..Len(located) : i # j => located[i] # located[j]

\* a list of more than a day: steps within a cycle, changes of cycle, and a
\* change of cycle folder date
C1_Witness ==
    /\ Nora3Called
    /\ Len(located) >= 25
    /\ \E i \in 1..(Len(located) - 1) :
          /\ ParsePath(located[i]).index = 9
          /\ ParsePath(located[i + 1]).index = 4
          /\ ParsePath(located[i]).day # ParsePath(located[i + 1]).day
    /\ \E i \in 1..(Len(located) - 1) :
          ParsePath(located[i + 1]).index = ParsePath(located[i]).index + 1

\* C2: for an integrated parameter, every returned sample at hour-of-day 4,
\* 10, 16 or 22, the first sample included, is accumulated(t) minus the spinup
\* sample valid at t - 1h.
C2_BoundaryMinusSpinup ==
    (Nora3Called /\ Accumulated /\ Returned /\ RegularWindow) =>
        \A i \in 1..Len(result) :
            HourOf(result[i].time) \in BoundaryHours =>
                result[i].values = VSub(RawAt(result[i].time), SpinupAt(result[i].time))

\* C3: for an integrated parameter, every returned sample after the first at
\* another hour-of-day is accumulated(t) minus accumulated(t - 1h) of its own
\* time t.
C3_HourlyDifference ==
    (Nora3Called /\ Accumulated /\ Returned /\ RegularWindow) =>
        \A i \in 2..Len(result) :
            HourOf(result[i].time) \notin BoundaryHours =>
                result[i].values = VSub(RawAt(result[i].time), RawAt(result[i].time - hour))

\* C4: a call of get_nora3_timeseries that returns, returns one sample for
\* every hour from start_time to end_time, and nothing else.
C4_OneSamplePerHour ==
    (Nora3Called /\ Returned) =>
        /\ Len(result) = end_time - start_time + 1
        /\ \A i \in 1..Len(result) : result[i].time = start_time + (i - 1)

\* C5: for an integrated parameter, a window that covers 2020-02-29 18:00 to
\* 23:00 returns, with zero samples at the hours of the window whose files
\* are excluded (2020-02-29 22:00 to 2020-03-01 03:00).
C5_ExcludedHoursZeroFilled ==
    (/\ Nora3Called /\ Accumulated
     /\ [lon |-> lon, lat |-> lat] \in InsideStations
     /\ start_time <= datetime(2020, 2, 29, 18)
     /\ end_time >= datetime(2020, 2, 29, 23)) =>
        /\ Returned
        /\ \A t \in datetime(2020, 2, 29, 22)..datetime(2020, 3, 1, 3) :
              t <= end_time =>
                  \E i \in 1..Len(result) :
                      /\ result[i].time = t
                      /\ \A s \in 1..Len(result[i].values) : result[i].values[s] = 0

\* C6: once the argument checks pass, get_timeseries takes the NORA3 branch
\* exactly when start_time >= 1997-08-01 04:00, 44 <= lat <= 83 and
\* -30 <= lon <= 85, and the ERA5 branch otherwise.
C6_SourceSelection ==
    (GtCalled /\ raised \notin {"RuntimeError: Undefined parameter",
                                "RuntimeError: Start time outside data set time interval",
                                "RuntimeError: End time outside data set time interval"}) =>
        IF /\ start_time >= datetime(1997, 8, 1, 4)
           /\ 44 <= lat[1] /\ lat[1] <= 83
           /\ -30 <= lon[1] /\ lon[1] <= 85
        THEN source = "NORA3"
        ELSE source = "ERA5"

\* a point on the boundary of the domain at the start of the NORA3 epoch
C6_Witness ==
    /\ GtCalled
    /\ lat = <<44>>
    /\ start_time = datetime(1997, 8, 1, 4)
    /\ source = "NORA3"
    /\ Returned

\* C7: get_timeseries raises, with no extractor called and no file opened,
\* when start_time or end_time is before 1979-01-01 00:00 or after
\* 2019-12-31 00:00, and does not raise either time error otherwise.
C7_TimeBounds ==
    GtCalled =>
        IF \/ start_time < datetime(1979, 1, 1, 0) \/ start_time > datetime(2019, 12, 31, 0)
           \/ end_time < datetime(1979, 1, 1, 0) \/ end_time > datetime(2019, 12, 31, 0)
        THEN /\ raised # ""
             /\ callee = NoExtractor
             /\ opened = <<>> /\ located = <<>> /\ filenames = <<>>
        ELSE raised \notin {"RuntimeError: Start time outside data set time interval",
                            "RuntimeError: End time outside data set time interval"}

\* the latest accepted start with an end one hour too late
C7_Witness ==
    /\ GtCalled
    /\ start_time = datetime(2019, 12, 31, 0)
    /\ end_time = datetime(2019, 12, 31, 1)
    /\ raised = "RuntimeError: End time outside data set time interval"

\* C8: get_nora3_timeseries raises the range error, with no file list built
\* and no file opened, when a station has lat outside [44, 83] or lon outside
\* [-30, 85].
C8_StationOutOfRange ==
    (/\ Nora3Called
     /\ param \in available_atm_params_nora3 \cup sfx_params
     /\ \E i \in 1..Len(lat) : lat[i] < 44 \/ lat[i] > 83 \/ lon[i] < -30 \/ lon[i] > 85) =>
        /\ raised \in {"RuntimeError: Latitude out of range", "RuntimeError: Longitude out of range"}
        /\ located = <<>>
        /\ opened = <<>>

\* C9: for a parameter that passes the parameter check and times inside the
\* bounds, get_timeseries returns a pair tagged "NORA3" or "ERA5".
C9_ReturnsTaggedPair ==
    (/\ GtCalled /\ use_atm
     /\ param \in available_atm_params \cup available_wave_params
     /\ start_time <= end_time
     /\ start_time >= datetime(1979, 1, 1, 0) /\ end_time <= datetime(2019, 12, 31, 0)) =>
        /\ Returned
        /\ source \in {"NORA3", "ERA5"}

\* C10: for an hourly parameter that is not integrated, the file list has one
\* file per hour of [start_time, end_time], the i-th holding start_time + (i-1) h.
C10_OneFilePerHour ==
    (/\ Nora3Called
     /\ param \in available_atm_params_nora3 \ integrated_params
     /\ raised \in {"", "OSError"}) =>
        /\ Len(filenames) = (IF end_time < start_time THEN 0 ELSE end_time - start_time + 1)
        /\ \A i \in 1..Len(filenames) :
              LET f == ParsePath(filenames[i])
              IN  CycleOf(f) + f.index = start_time + (i - 1)

\* the window [T, T+23h]: 24 files
C10_Witness ==
    /\ Nora3Called
    /\ param \in available_atm_params_nora3 \ integrated_params
    /\ Returned
    /\ end_time = start_time + 23
    /\ Len(filenames) = 24
    /\ Len(result) = 24

\* the call built its file lists with the hourly locator
HourlyListsBuilt ==
    /\ Nora3Called
    /\ param \in available_atm_params_nora3
    /\ raised \in {"", "OSError", "ValueError", "IndexError"}

\* C13: the file located for the hour t is in the cycle that starts at the
\* latest of 00/06/12/18 at or before t - 4h, on the date of t - 4h, and its
\* index is the number of hours from that cycle start to t.
C13_CycleOfOffsetTime ==
    HourlyListsBuilt =>
        \A i \in 1..Len(located) :
            LET f == ParsePath(located[i])
            IN  /\ CycleOf(f) = 6 * ((start_time + (i - 1) - 4) \div 6)
                /\ f.index = start_time + (i - 1) - CycleOf(f)

\* windows of a day and more: every cycle of the day, and hours 0 to 3, whose
\* cycle is on the day before
C13_Witness ==
    /\ HourlyListsBuilt
    /\ Len(located) >= 24
    /\ \E i \in 1..Len(located) :
          /\ HourOf(start_time + (i - 1)) = 2
          /\ ParsePath(located[i]).period = 18
          /\ ParsePath(located[i]).index = 8
          /\ ParsePath(located[i]).day # DateOf(start_time + (i - 1)).day

\* C14 (as stated): the located file index k satisfies t = cycle_start + 4h + k.
C14_IndexZeroAtFourHours ==
    HourlyListsBuilt =>
        \A i \in 1..Len(located) :
            start_time + (i - 1) = CycleStart(located[i]) + 4 + ParsePath(located[i]).index

\* C14 (amended): the located file index k is the forecast hour itself,
\* t = cycle_start + k, and no located index is below 4: the first file used
\* of a cycle is index 4, valid at cycle_start + 4h.
C14_IndexIsForecastHour ==
    HourlyListsBuilt =>
        \A i \in 1..Len(located) :
            LET f == ParsePath(located[i])
            IN  /\ f.index >= 4
                /\ CycleOf(f) + f.index = start_time + (i - 1)

\* the first file of a cycle: index 4 at cycle_start + 4h
C14_Witness ==
    /\ HourlyListsBuilt
    /\ Len(located) >= 7
    /\ ParsePath(located[1]).index = 4
    /\ CycleStart(located[1]) + 4 = start_time
    /\ ParsePath(located[7]).index = 4

\* C15: for an integrated parameter the first-timestep file is the file the
\* loop locates for start_time - 1h.
C15_FirstTimestepIsPreviousHour ==
    (HourlyListsBuilt /\ Accumulated) =>
        /\ first_timestep_filename = PrimaryFile(start_time - hour)
        /\ ValidTime(first_timestep_filename) = start_time - hour

\* start_time at hour 0 (the index wraps) and at a cycle-boundary hour
C15_Witness ==
    /\ HourlyListsBuilt /\ Accumulated
    /\ \/ /\ HourOf(start_time) = 0
          /\ ParsePath(first_timestep_filename).index = 5
       \/ /\ HourOf(start_time) = 4
          /\ ParsePath(first_timestep_filename).index = 9
          /\ ParsePath(first_timestep_filename).day # DateOf(start_time).day

\* the files of a list at a given index of their cycle
AtIndex(files, k) == {i \in 1..Len(files) : ParsePath(files[i]).index = k}

\* C16: for an integrated parameter the spinup list holds, for each primary
\* file at index 4, the index-3 file of the same cycle, once, and nothing
\* else, and shares no path with the primary list; for another parameter it
\* is empty.
C16_SpinupList ==
    HourlyListsBuilt =>
        IF Accumulated
        THEN LET first_cycles == {CycleStart(filenames[i]) : i \in AtIndex(filenames, 4)}
             IN
             /\ \A c \in first_cycles :
                   Cardinality({j \in 1..Len(spinup_filenames) :
                       CycleStart(spinup_filenames[j]) = c}) = 1
             /\ \A j \in 1..Len(spinup_filenames) :
                   /\ ParsePath(spinup_filenames[j]).index = 3
                   /\ CycleStart(spinup_filenames[j]) \in first_cycles
             /\ \A i \in 1..Len(filenames), j \in 1..Len(spinup_filenames) :
                   filenames[i] # spinup_filenames[j]
        ELSE spinup_filenames = <<>>

\* a window over several cycles, with a spinup file for each
C16_Witness ==
    /\ HourlyListsBuilt /\ Accumulated
    /\ Len(spinup_filenames) >= 3
    /\ Cardinality(AtIndex(filenames, 4)) = Len(spinup_filenames)

\* C19: no file list handed to open_mfdataset holds a file of the excluded
\* 2020-02-29 18 cycle, whatever the parameter.
C19_ExcludedForEveryParameter ==
    HourlyListsBuilt =>
        /\ \A i \in 1..Len(filenames) : ~startswith(filenames[i], excluded_prefix)
        /\ \A i \in 1..Len(spinup_filenames) : ~startswith(spinup_filenames[i], excluded_prefix)

\* C17: after the sign check the first time step is non-negative for every
\* station: a negative first value is replaced by zero, a non-negative one
\* is left as it is, station by station.
C17_FirstStepClampedPerStation ==
    op = "first_value_sign_check" =>
        \A s \in 1..Len(args.first) :
            ret.first[s] = (IF args.first[s] < 0 THEN 0 ELSE args.first[s])

\* 4-connected distance between two cells
Manhattan(a, b) ==
    (IF a[1] < b[1] THEN b[1] - a[1] ELSE a[1] - b[1])
        + (IF a[2] < b[2] THEN b[2] - a[2] ELSE a[2] - b[2])

WaterCells(grid) ==
    {c \in Cells(Len(grid), Len(grid[1])) : Item(grid, c) # missing_value}

\* C11: on a grid with a non-missing cell, get_closest_water_point returns,
\* for every start cell, a non-missing cell at minimal 4-connected distance
\* from the start; a non-missing start cell is returned without expanding a
\* neighbour.
C11_NearestWaterPoint ==
    op = "get_closest_water_point" =>
        /\ ret.raised = ""
        /\ ret.found # <<>>
        /\ Item(args.data, ret.found) # missing_value
        /\ \A c \in WaterCells(args.data) :
              Manhattan(<<args.start_i, args.start_j>>, CellOf(args.data, ret.found))
                  <= Manhattan(<<args.start_i, args.start_j>>, c)
        /\ <<args.start_i, args.start_j>> \in WaterCells(args.data) =>
              /\ ret.found = <<args.start_i, args.start_j>>
              /\ ret.count = 0
              /\ Len(ret.tested) = 1

\* max(|grid_lon - lon|, |grid_lat - lat|) at node (y, x), counted from 0
LookupError(y, x) ==
    Max(Abs(args.longitude[y + 1][x + 1] - args.lon_elem),
        Abs(args.latitude[y + 1][x + 1] - args.lat_elem))

\* C12: the lookup returns the index (y, x) of a node that minimises
\* max(|grid_lon - lon|, |grid_lat - lat|), the first such node in row-major
\* order, y and x from the same node; a query on a node's coordinates returns
\* a node with those coordinates.
C12_FirstNearestNode ==
    op = "grid_point_lookup" =>
        /\ ret.y_idx \in 0..(Len(args.longitude) - 1)
        /\ ret.x_idx \in 0..(Len(args.longitude[1]) - 1)
        /\ \A y \in 0..(Len(args.longitude) - 1), x \in 0..(Len(args.longitude[1]) - 1) :
              /\ LookupError(ret.y_idx, ret.x_idx) <= LookupError(y, x)
              /\ LookupError(y, x) = LookupError(ret.y_idx, ret.x_idx) =>
                    \/ ret.y_idx < y
                    \/ ret.y_idx = y /\ ret.x_idx <= x
              /\ (args.longitude[y + 1][x + 1] = args.lon_elem
                    /\ args.latitude[y + 1][x + 1] = args.lat_elem) =>
                    LookupError(ret.y_idx, ret.x_idx) = 0

\* a query with two nearest nodes in different rows and columns, answered
\* with the one first in row-major order, and not in the first row or column
C12_Witness ==
    /\ op = "grid_point_lookup"
    /\ ret.y_idx > 0 /\ ret.x_idx > 0
    /\ \E y \in 0..(Len(args.longitude) - 1), x \in 0..(Len(args.longitude[1]) - 1) :
          /\ y > ret.y_idx /\ x < ret.x_idx
          /\ LookupError(y, x) = LookupError(ret.y_idx, ret.x_idx)

SfxListBuilt ==
    /\ Nora3Called
    /\ param \in sfx_params
    /\ start_time <= end_time

\* C18: for a surface parameter the window is rounded outward to 3-hour
\* boundaries: the augmented start is the latest boundary at or before
\* start_time, the augmented end the earliest at or after end_time, and the
\* files enumerated run from the one to the other.
C18_RoundedOutward ==
    SfxListBuilt =>
        /\ AugmentedStart(start_time) = 3 * (start_time \div 3)
        /\ AugmentedEnd(end_time) = 3 * ((end_time + 2) \div 3)
        /\ Len(located) > 0
        /\ SfxValidTime(located[1]) <= start_time
        /\ SfxValidTime(located[Len(located)]) >= end_time

\* C20: the strides handed to get_nora3_timeseries tile [start_time, end_time]:
\* the first starts at start_time, each next one starts an hour after the
\* previous one ends, every stride has start <= end and at most 240 hours,
\* no stride follows the one that ends at end_time, and the function returns
\* after that one.
C20_StridesTileInterval ==
    op = "write_SUNPOINT_timeseries" =>
        /\ ret.strides[1].stride_start_time = args.start_time
        /\ \A k \in 1..Len(ret.strides) :
              /\ ret.strides[k].stride_start_time <= ret.strides[k].stride_end_time
              /\ ret.strides[k].stride_end_time - ret.strides[k].stride_start_time
                     < stride_length
              /\ ret.strides[k].stride_end_time <= args.end_time
              /\ k > 1 => ret.strides[k].stride_start_time
                              = ret.strides[k - 1].stride_end_time + hour
              /\ k < Len(ret.strides) => ret.strides[k].stride_end_time # args.end_time
        /\ ret.pc # "raised"
        /\ ret.pc = "done" => ret.strides[Len(ret.strides)].stride_end_time = args.end_time


\* C21: the extractor get_timeseries calls receives, as its lon parameter, the
\* value get_timeseries was given as lon, and as its lat parameter the value
\* it was given as lat, on the NORA3 and on the ERA5 branch.
C21_CoordinatesInOwnRoles ==
    (GtCalled /\ callee # NoExtractor) =>
        /\ callee.lon = lon[1]
        /\ callee.lat = lat[1]

\* C22: every index pair get_closest_water_point reads at line 108, and the
\* pair it returns, is a cell of the grid, 0 <= i < rows and 0 <= j < columns,
\* and no read is out of range, for every start cell of the grid.
C22_ReadsInsideGrid ==
    op = "get_closest_water_point" =>
        /\ ret.raised # "IndexError"
        /\ \A k \in 1..Len(ret.tested) :
              ret.tested[k] \in Cells(Len(args.data), Len(args.data[1]))
        /\ ret.found # <<>> =>
              ret.found \in Cells(Len(args.data), Len(args.data[1]))

\* C23: for an integrated parameter no file that get_nora3_timeseries opens,
\* the first-timestep file included, is a file of the excluded 2020-02-29 18
\* cycle, whatever start_time is.
C23_ExcludedNeverOpened ==
    (Nora3Called /\ Accumulated) =>
        \A i \in 1..Len(opened) : ~startswith(opened[i], excluded_prefix)

\* the files of a list with their position, index and cycle start
FilesAt(files) ==
    {[pos   |-> i,
      index |-> ParsePath(files[i]).index,
      cycle |-> CycleStart(files[i])] : i \in 1..Len(files)}

\* C24: every file the hourly loop locates, and the first-timestep file, has an
\* index in 4..9; a forecast cycle whose hours 4 to 9 are all in the window
\* contributes exactly six files, next to each other, with the indices 4 to 9
\* in order; index 3 is in the spinup list only.
C24_IndexFourToNine ==
    HourlyListsBuilt =>
        LET at == FilesAt(located)
        IN  /\ \A f \in at : f.index \in 4..9
            /\ \A f \in at :
                  (f.index = 4 /\ f.cycle + 9 <= end_time) =>
                      {<<g.pos - f.pos, g.index>> : g \in {g \in at : g.cycle = f.cycle}}
                          = {<<k, 4 + k>> : k \in 0..5}
            /\ Accumulated => ParsePath(first_timestep_filename).index \in 4..9
            /\ \A j \in 1..Len(spinup_filenames) : ParsePath(spinup_filenames[j]).index = 3

\* a window of more than a day that starts in the middle of a cycle: whole
\* cycles inside it, a part of a cycle at each end, and the first-timestep
\* file in the cycle of the first located file
C24_Witness ==
    /\ HourlyListsBuilt /\ Accumulated
    /\ end_time - start_time >= 26
    /\ ParsePath(first_timestep_filename).index = 7
    /\ ParsePath(located[1]).index = 8
    /\ ParsePath(located[Len(located)]).index = 4
    /\ Len(spinup_filenames) >= 4

====
